---------------------------- MODULE Spec2Model ----------------------------
(***************************************************************************)
(* Model of dom-element-to-component-source.                               *)
(*                                                                         *)
(*   getElementSourceLocation  (src/src/getElementSourceLocation.ts)       *)
(*   parseDebugStack & helpers (src/src/sourceLocationResolver.ts)         *)
(*   resolveSourceLocationInServer                                         *)
(*                             (src/src/resolveSourceLocationInServer.ts)  *)
(*                                                                         *)
(* Strings are sequences of tokens: a token is a piece of text that the    *)
(* string operations of the code never cut in two ("?" , "node_modules",   *)
(* "about://React/Server/", ".js", ...).  A fiber reference is a node      *)
(* number, 0 is null/undefined.                                            *)
(***************************************************************************)
EXTENDS Integers, Sequences, FiniteSets, TLC

(***************************************************************************)
(* Bounds of the model                                                     *)
(***************************************************************************)
NumNodes == 2          \* fiber nodes on the heap
MaxDepthOpt == 2       \* largest explicit options.maxDepth
MaxKeys == 2           \* own enumerable keys of the element
NumCalls == 3          \* resolveSourceLocationInServer calls in one process
StackLimit == NumNodes + 2
    \* call-stack frames the engine grants findFiberWithDebugStack; a
    \* recursion deeper than the number of nodes re-enters a node with an
    \* unchanged budget and is unbounded

Nodes == 1..NumNodes
NodeRefs == 0..NumNodes

(***************************************************************************)
(* String operations                                                       *)
(***************************************************************************)
RECURSIVE IndexOf(_, _, _)
IndexOf(s, t, i) ==
    IF i > Len(s) THEN 0
    ELSE IF s[i] = t THEN i ELSE IndexOf(s, t, i + 1)

\* s.split(t)[0]
SplitFirst(s, t) ==
    LET i == IndexOf(s, t, 1)
    IN  IF i = 0 THEN s ELSE SubSeq(s, 1, i - 1)

\* s.includes(t)
Includes(s, t) == \E i \in 1..Len(s) : s[i] = t

\* s.startsWith(p)
StartsWith(s, p) == Len(s) >= Len(p) /\ SubSeq(s, 1, Len(p)) = p

\* s.endsWith(t) for a one-token suffix
EndsWithTok(s, t) == Len(s) > 0 /\ s[Len(s)] = t

RECURSIVE TrimLeft(_)
TrimLeft(s) ==
    IF s # <<>> /\ Head(s) = " " THEN TrimLeft(Tail(s)) ELSE s

RECURSIVE TrimRight(_)
TrimRight(s) ==
    IF s # <<>> /\ s[Len(s)] = " " THEN TrimRight(SubSeq(s, 1, Len(s) - 1)) ELSE s

\* s.trim()
Trim(s) == TrimRight(TrimLeft(s))

\* a || b on numbers and on strings
NumOr(a, b) == IF a # 0 THEN a ELSE b
StrOr(a, b) == IF a # <<>> THEN a ELSE b

(***************************************************************************)
(* File names used as inputs                                               *)
(***************************************************************************)
AppFile == <<"/src/", "App", ".tsx">>
CardFile == <<"/src/", "Card", ".tsx">>
AppFileQ == <<"/src/", "App", ".tsx", "?", "35">>
VendorFile == <<"/", "node_modules", "/ui/", "Button", ".js">>
BlankFile == <<" ">>
ChunkFile == <<"http://localhost:3000", "/", "app", ".js">>
ClientStaticFile == <<"http://localhost:3000", "/", "_next/static", "/", "chunks/", "a8c60", ".js">>
ServerSsrFile ==
    <<"about://React/Server/", "file://", "/Users/app/", ".next/server/chunks/", "ssr/",
      "%5Broot%5D", ".js", "?", "49:200:316">>
ServerChunkFile ==
    <<"about://React/Server/", "file://", "/Users/app/", ".next/server/chunks/",
      "my-chunk", ".js", "?", "49:200:316">>
AboutOtherFile == <<"about://something-else">>

(***************************************************************************)
(* Debug payloads: node._debugStack || node.debugStack || node._debugSource *)
(*   kind "none"      no payload                                           *)
(*   kind "source"    {fileName, lineNumber, columnNumber}                 *)
(*   kind "badsource" a descriptor whose fileName is a truthy non-string   *)
(*   kind "stack"     an Error with a string stack; parse is what          *)
(*                    ErrorStackParser.parse does with it, frames what it  *)
(*                    returns, gps what getMappedLocation does with        *)
(*                    frames[1]                                            *)
(*   kind "opaque"    a truthy object with neither stack nor fileName      *)
(***************************************************************************)
NoFrame == [fileName |-> <<>>, lineNumber |-> 0, columnNumber |-> 0]
NoGps == [kind |-> "nothing", fileName |-> <<>>, lineNumber |-> 0, columnNumber |-> 0]

Frame(f, l, c) == [fileName |-> f, lineNumber |-> l, columnNumber |-> c]
GpsFrame(f, l, c) == [kind |-> "frame", fileName |-> f, lineNumber |-> l, columnNumber |-> c]
GpsThrows == [kind |-> "throws", fileName |-> <<>>, lineNumber |-> 0, columnNumber |-> 0]

NoPayload ==
    [kind |-> "none", fileName |-> <<>>, lineNumber |-> 0, columnNumber |-> 0,
     parse |-> "ok", frames |-> <<>>, gps |-> NoGps]

SourcePayload(f, l, c) ==
    [kind |-> "source", fileName |-> f, lineNumber |-> l, columnNumber |-> c,
     parse |-> "ok", frames |-> <<>>, gps |-> NoGps]

BadSourcePayload ==
    [kind |-> "badsource", fileName |-> <<>>, lineNumber |-> 1, columnNumber |-> 1,
     parse |-> "ok", frames |-> <<>>, gps |-> NoGps]

OpaquePayload ==
    [kind |-> "opaque", fileName |-> <<>>, lineNumber |-> 0, columnNumber |-> 0,
     parse |-> "ok", frames |-> <<>>, gps |-> NoGps]

StackPayload(prs, frs, g) ==
    [kind |-> "stack", fileName |-> <<>>, lineNumber |-> 0, columnNumber |-> 0,
     parse |-> prs, frames |-> frs, gps |-> g]


(***************************************************************************)
(* State                                                                   *)
(***************************************************************************)
VARIABLES
    element,      \* the argument of getElementSourceLocation
    options,      \* options.maxDepth, -1 when absent
    fiber,        \* the fiber heap: node number -> fields
    pc,           \* position of the getElementSourceLocation call
    ffStack,      \* findFiberWithDebugStack activation records
    found,        \* fiberWithDebugStack
    pdCaller,     \* who awaits parseDebugStack: "primary" or "parent"
    pdArg,        \* parseDebugStack's fiberNode
    pdCur,        \* findNodeWithoutNodeModules: current
    pdNode,       \* nodeToCheck
    cnCur,        \* getComponentName: current
    cnPrev,       \* getComponentName: previous
    pdResult,     \* what parseDebugStack resolved to
    gpCur,        \* getParentSourceLocation: current (fiberNode._debugOwner)
    gpDepth,      \* getParentSourceLocation: maxDepth
    gpIsNextJs,   \* getParentSourceLocation: isNextJs ("undef", "yes", "no")
    chain,        \* sourceLocation followed by its .parent links
    result,       \* the promise of getElementSourceLocation
    sourceLocation,  \* the argument of resolveSourceLocationInServer
    disk,         \* the files existsSync and readFileSync see
    srvPc,        \* position of the resolveSourceLocationInServer call
    sourceMapPath,   \* the companion map file chosen
    rawSourceMap, \* JSON.parse(sourceMapContent)
    consumer,     \* the SourceMapConsumer: "none", "live", "destroyed"
    microtasks,   \* continuations ready to run, oldest first
    effects,      \* calls made to the file system and to the consumer
    srvResult,    \* the promise of resolveSourceLocationInServer
    sourceMapInitialized,  \* the module's flag of the same name
    initializeCalls,       \* invocations of SourceMapConsumer.initialize
    calls         \* the resolveSourceLocationInServer calls of the process

locVars ==
    <<element, options, fiber, pc, ffStack, found, pdCaller, pdArg, pdCur, pdNode,
      cnCur, cnPrev, pdResult, gpCur, gpDepth, gpIsNextJs, chain, result>>

(***************************************************************************)
(* sourceLocationResolver.ts                                               *)
(***************************************************************************)
NullPath == [kind |-> "null", s |-> <<>>]
StrPath(s) == [kind |-> "string", s |-> s]
NonStrPath == [kind |-> "nonstring", s |-> <<>>]

\* the first try block reaches `return` only if the tokenizer returns, there
\* are two frames, and the service returns a frame
extractFilePathFromStack(p) ==
    CASE p.kind = "source" ->
            IF p.fileName # <<>> THEN StrPath(p.fileName) ELSE NullPath
      [] p.kind = "badsource" -> NonStrPath
      [] p.kind = "stack" ->
            IF p.parse = "throws" THEN NullPath
            ELSE IF Len(p.frames) < 2 THEN NullPath
            ELSE IF p.gps.kind = "frame"
                 THEN StrPath(SplitFirst(StrOr(p.gps.fileName, p.frames[2].fileName), "?"))
                 ELSE StrPath(SplitFirst(p.frames[2].fileName, "?"))
      [] OTHER -> NullPath

\* "yes", "no", or "throws" (filePath.includes on a non-string)
isNodeModulesNode(node) ==
    LET debugStack == node.payload
        filePath == extractFilePathFromStack(debugStack)
    IN  IF debugStack.kind = "none" THEN "no"
        ELSE IF filePath.kind = "nonstring" THEN "throws"
        ELSE IF filePath.kind = "string" /\ filePath.s # <<>>
                /\ Includes(filePath.s, "node_modules") THEN "yes"
        ELSE "no"

\* "" is null
getNameFromFiber(node) ==
    IF node.type.displayName # "" THEN node.type.displayName
    ELSE IF node.type.renderName # "" THEN node.type.renderName
    ELSE IF node.type.name # "" THEN node.type.name
    ELSE node.name

NullLoc == [kind |-> "null", file |-> <<>>, line |-> 0, column |-> 0, componentName |-> ""]
Loc(f, l, c, n) == [kind |-> "loc", file |-> f, line |-> l, column |-> c, componentName |-> n]

\* parseDebugStack lines 186-201: the location built from the mapped frame
MappedLocation(p, componentName) ==
    LET targetFrame == p.frames[2]
        originalFrame == p.gps
    IN  Loc(SplitFirst(StrOr(originalFrame.fileName, targetFrame.fileName), "?"),
            NumOr(originalFrame.lineNumber, NumOr(targetFrame.lineNumber, 0)),
            NumOr(originalFrame.columnNumber, NumOr(targetFrame.columnNumber, 0)),
            componentName)

\* parseDebugStack lines 206-225: the location built in the catch block
UnmappedLocation(p, componentName) ==
    IF p.parse = "throws" THEN NullLoc
    ELSE IF Len(p.frames) < 2 THEN NullLoc
    ELSE LET targetFrame == p.frames[2]
         IN  Loc(SplitFirst(targetFrame.fileName, "?"),
                 NumOr(targetFrame.lineNumber, 0),
                 NumOr(targetFrame.columnNumber, 0),
                 componentName)

\* parseDebugStack without the catch block of lines 205-226: a failure of
\* the mapping service is a failure of the resolution
BuildLocationNoFallback(p, componentName) ==
    CASE p.kind = "stack" ->
            IF p.parse = "throws" THEN NullLoc
            ELSE IF Len(p.frames) < 2 THEN NullLoc
            ELSE IF p.gps.kind = "frame" THEN MappedLocation(p, componentName)
            ELSE NullLoc
      [] p.kind = "source" ->
            Loc(SplitFirst(p.fileName, "?"), NumOr(p.lineNumber, 0),
                NumOr(p.columnNumber, 0), componentName)
      [] OTHER -> NullLoc

\* parseDebugStack lines 180-240: sourceLocation before the final check
BuildLocation(p, componentName) ==
    CASE p.kind = "stack" ->
            IF p.parse = "throws" THEN UnmappedLocation(p, componentName)
            ELSE IF Len(p.frames) < 2 THEN NullLoc
            ELSE IF p.gps.kind = "frame" THEN MappedLocation(p, componentName)
            ELSE UnmappedLocation(p, componentName)
      [] p.kind = "source" ->
            Loc(SplitFirst(p.fileName, "?"), NumOr(p.lineNumber, 0),
                NumOr(p.columnNumber, 0), componentName)
      [] OTHER -> NullLoc

\* parseDebugStack lines 242-246
FinalLocation(loc) ==
    IF loc.kind = "null" THEN NullLoc
    ELSE IF loc.file = <<>> \/ loc.line <= 0 THEN NullLoc
    ELSE loc

\* validateSourceLocation without the column test
validateSourceLocationAnyColumn(loc) ==
    /\ loc.file # <<>>
    /\ Trim(loc.file) # <<>>
    /\ loc.line > 0

validateSourceLocation(loc) ==
    /\ loc.file # <<>>
    /\ Trim(loc.file) # <<>>
    /\ loc.line > 0
    /\ loc.column >= 0

(***************************************************************************)
(* getElementSourceLocation.ts: pure parts                                 *)
(***************************************************************************)
hasDebugStack(node) == node.payload.kind # "none"

FiberPrefixes == {"__reactFiber$", "_reactFiber$"}

RECURSIVE FirstTruthy(_)
FirstTruthy(possibleFiberNodes) ==
    IF possibleFiberNodes = <<>> THEN 0
    ELSE IF Head(possibleFiberNodes) # 0 THEN Head(possibleFiberNodes)
    ELSE FirstTruthy(Tail(possibleFiberNodes))

\* a key's value: 0 falsy, -1 a truthy non-object, n >= 1 the fiber node n
RECURSIVE FirstFiberKey(_)
FirstFiberKey(elementKeys) ==
    IF elementKeys = <<>> THEN 0
    ELSE IF Head(elementKeys).prefix \in FiberPrefixes /\ Head(elementKeys).value >= 1
         THEN Head(elementKeys).value
    ELSE FirstFiberKey(Tail(elementKeys))

\* extractFiberNode taking an object under any own key
extractFiberNodeAnyKey(el) ==
    IF FirstTruthy(el.fixed) # 0 THEN FirstTruthy(el.fixed)
    ELSE FirstTruthy([i \in 1..Len(el.keys) |->
                        IF el.keys[i].value >= 1 THEN el.keys[i].value ELSE 0])

\* extractFiberNode scanning the own keys before the fixed attachment points
extractFiberNodeKeysFirst(el) ==
    IF FirstFiberKey(el.keys) # 0 THEN FirstFiberKey(el.keys)
    ELSE FirstTruthy(el.fixed)

\* fixed = <<_reactInternals, _reactInternalFiber, __reactInternalInstance,
\*           _reactInternalInstance>>
extractFiberNode(el) ==
    IF FirstTruthy(el.fixed) # 0 THEN FirstTruthy(el.fixed)
    ELSE FirstFiberKey(el.keys)

DefaultMaxDepth == 10

\* options.maxDepth || 10
EffectiveMaxDepth(opt) == IF opt > 0 THEN opt ELSE DefaultMaxDepth

\* data is sourceLocation followed by the locations its .parent links reach
NoResult == [status |-> "pending", success |-> FALSE, error |-> <<>>, data |-> <<>>]
Failure(msg) == [status |-> "fulfilled", success |-> FALSE, error |-> <<msg>>, data |-> <<>>]
Success(locs) == [status |-> "fulfilled", success |-> TRUE, error |-> <<>>, data |-> locs]

\* a catch block that throws the error again
HandleErrorRethrows(message) ==
    [status |-> "rejected", success |-> FALSE, error |-> <<message>>, data |-> <<>>]

\* the catch block of getElementSourceLocation
HandleError(message) ==
    [status |-> "fulfilled", success |-> FALSE,
     error |-> <<"Error extracting source location: ", message>>, data |-> <<>>]


(***************************************************************************)
(* getElementSourceLocation, step by step                                  *)
(***************************************************************************)
\* an exception inside the try block (lines 171-228)
Throw(message) ==
    /\ result' = HandleError(message)
    /\ pc' = "done"

Return(r) ==
    /\ result' = r
    /\ pc' = "done"

parseRegs == <<pdCaller, pdArg, pdCur, pdNode, cnCur, cnPrev, pdResult>>
chainRegs == <<gpCur, gpDepth, gpIsNextJs, chain>>
srvVars ==
    <<sourceLocation, disk, srvPc, sourceMapPath, rawSourceMap, consumer, microtasks,
      effects, srvResult>>

decoderVars == <<sourceMapInitialized, initializeCalls, calls>>

\* what no step of getElementSourceLocation changes
inputs == <<element, options, fiber, srvVars, decoderVars>>

\* lines 172-178: element.ownerDocument on null or on an object without an
\* ownerDocument raises a TypeError
CheckElement ==
    /\ pc = "start"
    /\ CASE element.kind \in {"null", "plain"} -> Throw("TypeError")
         [] element.kind = "foreign" -> Return(Failure("Invalid element provided"))
         [] OTHER -> pc' = "extract" /\ UNCHANGED result
    /\ UNCHANGED <<inputs, ffStack, found, parseRegs, chainRegs>>

\* lines 180-189
LocateFiber ==
    /\ pc = "extract"
    /\ LET fiberNode == extractFiberNode(element)
       IN  IF fiberNode = 0
           THEN /\ Return(Failure("No React Fiber node found on element"))
                /\ UNCHANGED ffStack
           ELSE /\ ffStack' = <<[current |-> fiberNode, depth |-> 0,
                                 maxDepth |-> EffectiveMaxDepth(options)]>>
                /\ pc' = "ascent"
                /\ UNCHANGED result
    /\ UNCHANGED <<inputs, found, parseRegs, chainRegs>>

\* findFiberWithDebugStack: the activation record on top of the stack
Top == ffStack[Len(ffStack)]

\* line 23 fails, or line 41: every caller receives null and returns null
AscentExhausted ==
    /\ pc = "ascent"
    /\ \/ Top.depth >= Top.maxDepth
       \/ /\ ~hasDebugStack(fiber[Top.current])
          /\ fiber[Top.current].return = 0
          /\ fiber[Top.current].sibling = 0
    /\ ffStack' = <<>>
    /\ Return(Failure("No debug stack information found in fiber tree"))
    /\ UNCHANGED <<inputs, found, parseRegs, chainRegs>>

\* lines 24-26, then line 198: every caller returns the node
AscentFound ==
    /\ pc = "ascent"
    /\ Top.depth < Top.maxDepth
    /\ hasDebugStack(fiber[Top.current])
    /\ found' = Top.current
    /\ ffStack' = <<>>
    /\ pdCaller' = "primary"
    /\ pdArg' = Top.current
    /\ pdCur' = Top.current
    /\ pc' = "pd_find"
    /\ UNCHANGED <<inputs, pdNode, cnCur, cnPrev, pdResult, chainRegs, result>>

\* lines 28-32
AscentReturn ==
    /\ pc = "ascent"
    /\ Top.depth < Top.maxDepth
    /\ ~hasDebugStack(fiber[Top.current])
    /\ fiber[Top.current].return # 0
    /\ ffStack' = [ffStack EXCEPT ![Len(ffStack)] =
                      [@ EXCEPT !.current = fiber[Top.current].return,
                                !.depth = @ + 1]]
    /\ UNCHANGED <<inputs, pc, found, parseRegs, chainRegs, result>>

\* lines 34-35: the recursive call on the sibling
AscentSibling ==
    /\ pc = "ascent"
    /\ Top.depth < Top.maxDepth
    /\ ~hasDebugStack(fiber[Top.current])
    /\ fiber[Top.current].return = 0
    /\ fiber[Top.current].sibling # 0
    /\ Len(ffStack) < StackLimit
    /\ ffStack' = Append(ffStack, [current |-> fiber[Top.current].sibling, depth |-> 0,
                                   maxDepth |-> Top.maxDepth - Top.depth])
    /\ UNCHANGED <<inputs, pc, found, parseRegs, chainRegs, result>>

\* lines 34-35 when the engine has no room for another activation record
AscentOverflow ==
    /\ pc = "ascent"
    /\ Top.depth < Top.maxDepth
    /\ ~hasDebugStack(fiber[Top.current])
    /\ fiber[Top.current].return = 0
    /\ fiber[Top.current].sibling # 0
    /\ Len(ffStack) >= StackLimit
    /\ ffStack' = <<>>
    /\ Throw("Maximum call stack size exceeded")
    /\ UNCHANGED <<inputs, found, parseRegs, chainRegs>>


(***************************************************************************)
(* parseDebugStack, awaited by getElementSourceLocation (line 198) and by  *)
(* getParentSourceLocation (line 84)                                       *)
(***************************************************************************)
\* findNodeWithoutNodeModules, lines 128-134: current is the node to use
PathIsOwnCode(node) ==
    LET filePath == extractFilePathFromStack(node.payload)
    IN  /\ node.payload.kind # "none"
        /\ filePath.kind = "string"
        /\ filePath.s # <<>>
        /\ ~Includes(filePath.s, "node_modules")

\* filePath.includes on a truthy non-string
PathThrows(node) ==
    /\ node.payload.kind # "none"
    /\ extractFilePathFromStack(node.payload).kind = "nonstring"

\* the promise of parseDebugStack resolves; its awaiter goes on
ParseResolves(componentName) ==
    /\ pdResult' = FinalLocation(BuildLocation(fiber[pdNode'].payload, componentName))
    /\ pc' = IF pdCaller = "primary" THEN "primary_parsed" ELSE "parent_parsed"

\* findNodeWithoutNodeModules, lines 136-141: one more turn of the loop
FindNodeClimb ==
    /\ pc = "pd_find"
    /\ ~PathThrows(fiber[pdCur])
    /\ ~PathIsOwnCode(fiber[pdCur])
    /\ fiber[pdCur]._debugOwner # 0
    /\ pdCur' = fiber[pdCur]._debugOwner
    /\ UNCHANGED <<inputs, pc, ffStack, found, pdCaller, pdArg, pdNode, cnCur, cnPrev,
                   pdResult, chainRegs, result>>

\* findNodeWithoutNodeModules returns (line 132 or 145); parseDebugStack
\* lines 158-178 and getComponentName lines 84-93
FindNodeReturns ==
    /\ pc = "pd_find"
    /\ ~PathThrows(fiber[pdCur])
    /\ PathIsOwnCode(fiber[pdCur]) \/ fiber[pdCur]._debugOwner = 0
    /\ pdNode' = IF PathIsOwnCode(fiber[pdCur]) THEN pdCur ELSE pdArg
    /\ LET nodeToCheck == fiber[pdNode']
       IN  CASE nodeToCheck.payload.kind = "none" ->
                   /\ pdResult' = NullLoc
                   /\ pc' = IF pdCaller = "primary" THEN "primary_parsed" ELSE "parent_parsed"
                   /\ UNCHANGED <<cnCur, cnPrev, result>>
             [] nodeToCheck.payload.kind # "none" /\ isNodeModulesNode(nodeToCheck) = "throws" ->
                   /\ Throw("TypeError")
                   /\ UNCHANGED <<cnCur, cnPrev, pdResult>>
             [] nodeToCheck.payload.kind # "none" /\ isNodeModulesNode(nodeToCheck) = "no"
                  /\ getNameFromFiber(nodeToCheck) # "" ->
                   /\ ParseResolves(getNameFromFiber(nodeToCheck))
                   /\ UNCHANGED <<cnCur, cnPrev, result>>
             [] OTHER ->
                   /\ cnCur' = nodeToCheck._debugOwner
                   /\ cnPrev' = 0
                   /\ pc' = "cn_loop"
                   /\ UNCHANGED <<pdResult, result>>
    /\ UNCHANGED <<inputs, ffStack, found, pdCaller, pdArg, pdCur, chainRegs>>

\* extractFilePathFromStack hands a non-string to filePath.includes
\* (lines 131 and 47); nothing inside parseDebugStack catches it
ParseThrows ==
    /\ \/ pc = "pd_find" /\ PathThrows(fiber[pdCur])
       \/ pc = "cn_loop" /\ cnCur # 0 /\ cnCur # cnPrev
            /\ isNodeModulesNode(fiber[cnCur]) = "throws"
    /\ Throw("TypeError")
    /\ UNCHANGED <<inputs, ffStack, found, parseRegs, chainRegs>>

\* getComponentName lines 95-115: one more turn of the loop
NameClimb ==
    /\ pc = "cn_loop"
    /\ cnCur # 0
    /\ cnCur # cnPrev
    /\ \/ isNodeModulesNode(fiber[cnCur]) = "yes"
       \/ isNodeModulesNode(fiber[cnCur]) = "no" /\ getNameFromFiber(fiber[cnCur]) = ""
    /\ cnPrev' = cnCur
    /\ cnCur' = fiber[cnCur]._debugOwner
    /\ UNCHANGED <<inputs, pc, ffStack, found, pdCaller, pdArg, pdCur, pdNode, pdResult,
                   chainRegs, result>>

\* getComponentName taking the name of a creator without asking whether
\* the creator is vendored
NameReturnsAnyCreator ==
    /\ pc = "cn_loop"
    /\ \/ cnCur = 0
       \/ cnCur = cnPrev
       \/ /\ cnCur # 0
          /\ isNodeModulesNode(fiber[cnCur]) # "throws"
          /\ getNameFromFiber(fiber[cnCur]) # ""
    /\ UNCHANGED pdNode
    /\ ParseResolves(IF cnCur = 0 \/ cnCur = cnPrev THEN ""
                     ELSE getNameFromFiber(fiber[cnCur]))
    /\ UNCHANGED <<inputs, ffStack, found, pdCaller, pdArg, pdCur, cnCur, cnPrev,
                   chainRegs, result>>

\* getComponentName returns (line 110 or 117); parseDebugStack lines 180-246
NameReturns ==
    /\ pc = "cn_loop"
    /\ \/ cnCur = 0
       \/ cnCur = cnPrev
       \/ /\ cnCur # 0
          /\ isNodeModulesNode(fiber[cnCur]) = "no"
          /\ getNameFromFiber(fiber[cnCur]) # ""
    /\ UNCHANGED pdNode
    /\ ParseResolves(IF cnCur = 0 \/ cnCur = cnPrev THEN ""
                     ELSE getNameFromFiber(fiber[cnCur]))
    /\ UNCHANGED <<inputs, ffStack, found, pdCaller, pdArg, pdCur, cnCur, cnPrev,
                   chainRegs, result>>

(***************************************************************************)
(* getElementSourceLocation lines 199-217                                  *)
(***************************************************************************)
PrimaryParsed ==
    /\ pc = "primary_parsed"
    /\ CASE pdResult.kind = "null" ->
              /\ Return(Failure("No debug stack information found on Fiber node"))
              /\ UNCHANGED chainRegs
         [] pdResult.kind # "null" /\ ~validateSourceLocation(pdResult) ->
              /\ Return(Failure("Invalid source location data found"))
              /\ UNCHANGED chainRegs
         [] OTHER ->
              /\ chain' = <<pdResult>>
              /\ gpCur' = fiber[found]._debugOwner
              /\ gpDepth' = EffectiveMaxDepth(options)
              /\ gpIsNextJs' = "undef"
              /\ pc' = "parent"
              /\ UNCHANGED result
    /\ UNCHANGED <<inputs, ffStack, found, parseRegs>>

(***************************************************************************)
(* getParentSourceLocation.  A call is (gpCur, gpDepth, gpIsNextJs) where  *)
(* gpCur is the _debugOwner of its fiberNode argument.  What a call        *)
(* returns is the rest of the chain, so the resolved locations are         *)
(* collected in chain in the order in which .parent links them.            *)
(***************************************************************************)
\* lines 68-75, then 219-222
ParentChainEnds ==
    /\ pc = "parent"
    /\ gpDepth <= 0 \/ gpCur = 0
    /\ Return(Success(chain))
    /\ UNCHANGED <<inputs, ffStack, found, parseRegs, chainRegs>>

IsNextJs(node) == IF node.env = "Server" THEN "yes" ELSE "no"

\* lines 77-84
ParentEnter ==
    /\ pc = "parent"
    /\ gpDepth > 0
    /\ gpCur # 0
    /\ gpIsNextJs' = IF gpIsNextJs = "undef" THEN IsNextJs(fiber[gpCur]) ELSE gpIsNextJs
    /\ IF hasDebugStack(fiber[gpCur])
       THEN /\ pdCaller' = "parent"
            /\ pdArg' = gpCur
            /\ pdCur' = gpCur
            /\ pc' = "pd_find"
       ELSE /\ pc' = "parent_next"
            /\ UNCHANGED <<pdCaller, pdArg, pdCur>>
    /\ UNCHANGED <<inputs, ffStack, found, pdNode, cnCur, cnPrev, pdResult, gpCur,
                   gpDepth, chain, result>>

\* a chain builder that does not await parseDebugStack: it goes on with
\* whatever the last resolution left while the new one is still running
ParentParsedNoAwait ==
    /\ pc \in {"parent_parsed", "cn_loop"}
    /\ pdCaller = "parent"
    /\ IF pdResult.kind # "null" /\ validateSourceLocation(pdResult)
       THEN /\ chain' = Append(chain, pdResult)
            /\ gpCur' = fiber[gpCur]._debugOwner
            /\ gpDepth' = gpDepth - 1
            /\ pc' = "parent"
       ELSE /\ pc' = "parent_next"
            /\ UNCHANGED <<gpCur, gpDepth, chain>>
    /\ UNCHANGED <<inputs, ffStack, found, parseRegs, gpIsNextJs, result>>

\* lines 85-92
ParentParsed ==
    /\ pc = "parent_parsed"
    /\ IF pdResult.kind # "null" /\ validateSourceLocation(pdResult)
       THEN /\ chain' = Append(chain, pdResult)
            /\ gpCur' = fiber[gpCur]._debugOwner
            /\ gpDepth' = gpDepth - 1
            /\ pc' = "parent"
       ELSE /\ pc' = "parent_next"
            /\ UNCHANGED <<gpCur, gpDepth, chain>>
    /\ UNCHANGED <<inputs, ffStack, found, parseRegs, gpIsNextJs, result>>

\* a chain builder that gives up at an ancestor without a valid location
ParentNextEnds ==
    /\ pc = "parent_next"
    /\ Return(Success(chain))
    /\ UNCHANGED <<gpCur, gpDepth>>
    /\ UNCHANGED <<inputs, ffStack, found, parseRegs, gpIsNextJs, chain>>

\* a chain builder that spends no budget on an ancestor it passes over
ParentNextFree ==
    /\ pc = "parent_next"
    /\ LET nextNode == IF gpIsNextJs = "yes" THEN fiber[gpCur].owner
                       ELSE fiber[gpCur]._debugOwner
       IN  IF nextNode # 0
           THEN /\ gpCur' = nextNode
                /\ gpDepth' = gpDepth
                /\ pc' = "parent"
                /\ UNCHANGED result
           ELSE /\ Return(Success(chain))
                /\ UNCHANGED <<gpCur, gpDepth>>
    /\ UNCHANGED <<inputs, ffStack, found, parseRegs, gpIsNextJs, chain>>

\* lines 97-104
ParentNext ==
    /\ pc = "parent_next"
    /\ LET nextNode == IF gpIsNextJs = "yes" THEN fiber[gpCur].owner
                       ELSE fiber[gpCur]._debugOwner
       IN  IF nextNode # 0
           THEN /\ gpCur' = nextNode
                /\ gpDepth' = gpDepth - 1
                /\ pc' = "parent"
                /\ UNCHANGED result
           ELSE /\ Return(Success(chain))
                /\ UNCHANGED <<gpCur, gpDepth>>
    /\ UNCHANGED <<inputs, ffStack, found, parseRegs, gpIsNextJs, chain>>


(***************************************************************************)
(* resolveSourceLocationInServer.ts: paths                                 *)
(* In a path "/" is a token of its own; a segment is the run of tokens     *)
(* between two "/".                                                        *)
(***************************************************************************)
RECURSIVE SegmentsFrom(_, _, _)
SegmentsFrom(p, acc, out) ==
    IF p = <<>> THEN (IF acc = <<>> THEN out ELSE Append(out, acc))
    ELSE IF Head(p) = "/"
         THEN SegmentsFrom(Tail(p), <<>>, IF acc = <<>> THEN out ELSE Append(out, acc))
         ELSE SegmentsFrom(Tail(p), Append(acc, Head(p)), out)

Segments(p) == SegmentsFrom(p, <<>>, <<>>)

IsAbsolute(p) == p # <<>> /\ Head(p) = "/"

\* node:path normalisation of "." and ".." segments
RECURSIVE ResolveDots(_, _, _)
ResolveDots(segs, abs, out) ==
    IF segs = <<>> THEN out
    ELSE IF Head(segs) = <<".">> THEN ResolveDots(Tail(segs), abs, out)
    ELSE IF Head(segs) = <<"..">>
         THEN IF out # <<>> /\ out[Len(out)] # <<"..">>
              THEN ResolveDots(Tail(segs), abs, SubSeq(out, 1, Len(out) - 1))
              ELSE IF abs THEN ResolveDots(Tail(segs), abs, out)
              ELSE ResolveDots(Tail(segs), abs, Append(out, Head(segs)))
    ELSE ResolveDots(Tail(segs), abs, Append(out, Head(segs)))

RECURSIVE Render(_)
Render(segs) ==
    IF segs = <<>> THEN <<>>
    ELSE IF Len(segs) = 1 THEN Head(segs)
    ELSE Head(segs) \o <<"/">> \o Render(Tail(segs))

normalize(p) ==
    LET body == Render(ResolveDots(Segments(p), IsAbsolute(p), <<>>))
    IN  IF IsAbsolute(p) THEN <<"/">> \o body
        ELSE IF body = <<>> THEN <<".">> ELSE body

RECURSIVE Slashed(_)
Slashed(parts) ==
    IF parts = <<>> THEN <<>>
    ELSE IF Head(parts) = <<>> THEN Slashed(Tail(parts))
    ELSE IF Slashed(Tail(parts)) = <<>> THEN Head(parts)
    ELSE Head(parts) \o <<"/">> \o Slashed(Tail(parts))

\* join(a, b, ...) of node:path
join(parts) == normalize(Slashed(parts))

\* dirname(p) of node:path
dirname(p) ==
    LET segs == Segments(p)
        body == Render(SubSeq(segs, 1, Len(segs) - 1))
    IN  IF IsAbsolute(p) THEN <<"/">> \o body
        ELSE IF body = <<>> THEN <<".">> ELSE body

\* s.replace(/\\/g, '/')
SlashBackslashes(s) == [i \in 1..Len(s) |-> IF s[i] = "\\" THEN "/" ELSE s[i]]

\* s.replace(/^file:\/\/\//, '/') and s.replace(/^file:\/\//, '/')
StripFileScheme(s) ==
    IF StartsWith(s, <<"file://", "/">>) THEN <<"/">> \o SubSeq(s, 3, Len(s))
    ELSE IF StartsWith(s, <<"file://">>) THEN <<"/">> \o Tail(s)
    ELSE s

\* decodeURIComponent: "%5B" and "%5D" are escapes, a lone "%" is malformed
MalformedURI(s) == Includes(s, "%")
DecodeToken(t) ==
    CASE t = "%5B" -> "["
      [] t = "%5D" -> "]"
      [] OTHER -> t
decodeURIComponent(s) == [i \in 1..Len(s) |-> DecodeToken(s[i])]

ServerPrefix == <<"about://React/Server/">>

\* lines 32-43
ScriptPath(file) ==
    LET filePath == StripFileScheme(SubSeq(file, Len(ServerPrefix) + 1, Len(file)))
    IN  IF MalformedURI(filePath) THEN filePath ELSE decodeURIComponent(filePath)

\* filePath.replace(/\.js$/, '.map')
DotMap(filePath) ==
    IF EndsWithTok(filePath, ".js")
    THEN SubSeq(filePath, 1, Len(filePath) - 1) \o <<".map">>
    ELSE filePath

\* lines 45-57: the map file chosen (<<>> if none exists) and the
\* existsSync calls made on the way
MapLookup(filePath, files) ==
    IF filePath \o <<".map">> \in files
    THEN [path |-> filePath \o <<".map">>, calls |-> <<"existsSync">>]
    ELSE IF DotMap(filePath) \in files
    THEN [path |-> DotMap(filePath), calls |-> <<"existsSync", "existsSync">>]
    ELSE IF EndsWithTok(filePath, ".js") /\ DotMap(filePath) \in files
    THEN [path |-> DotMap(filePath), calls |-> <<"existsSync", "existsSync", "existsSync">>]
    ELSE IF ~EndsWithTok(filePath, ".js") /\ filePath \o <<".map">> \in files
    THEN [path |-> filePath \o <<".map">>, calls |-> <<"existsSync", "existsSync", "existsSync">>]
    ELSE [path |-> <<>>, calls |-> <<"existsSync", "existsSync", "existsSync">>]

\* lines 76-98
ResolvedSource(source, raw, mapPath) ==
    LET resolvedSource == StripFileScheme(source)
    IN  SlashBackslashes(
          IF IsAbsolute(resolvedSource) THEN resolvedSource
          ELSE IF raw.sourceRoot # <<>>
               THEN IF ~IsAbsolute(raw.sourceRoot)
                    THEN join(<<dirname(mapPath), raw.sourceRoot, resolvedSource>>)
                    ELSE join(<<raw.sourceRoot, resolvedSource>>)
               ELSE join(<<dirname(mapPath), resolvedSource>>))

NullNum == -1

\* the mapped column taken with || instead of the null test
MappedResultOrColumn(loc, originalPosition, raw, mapPath) ==
    [file |-> ResolvedSource(originalPosition.source, raw, mapPath),
     line |-> IF originalPosition.line # 0 THEN originalPosition.line ELSE loc.line,
     column |-> IF originalPosition.column \notin {NullNum, 0} THEN originalPosition.column
                ELSE loc.column,
     componentName |-> loc.componentName,
     sourceCode |-> loc.sourceCode,
     tagName |-> "",
     parent |-> ""]

\* the result built without the snippet of the input
MappedResultNoSourceCode(loc, originalPosition, raw, mapPath) ==
    [file |-> ResolvedSource(originalPosition.source, raw, mapPath),
     line |-> IF originalPosition.line # 0 THEN originalPosition.line ELSE loc.line,
     column |-> IF originalPosition.column # NullNum THEN originalPosition.column
                ELSE loc.column,
     componentName |-> loc.componentName,
     sourceCode |-> "",
     tagName |-> "",
     parent |-> ""]

\* the result built by spreading the input and overwriting file, line and
\* column
MappedResultSpreads(loc, originalPosition, raw, mapPath) ==
    [loc EXCEPT
       !.file = ResolvedSource(originalPosition.source, raw, mapPath),
       !.line = IF originalPosition.line # 0 THEN originalPosition.line ELSE loc.line,
       !.column = IF originalPosition.column # NullNum THEN originalPosition.column
                  ELSE loc.column]

\* lines 100-106: a new object; tagName and parent are not copied
MappedResult(loc, originalPosition, raw, mapPath) ==
    [file |-> ResolvedSource(originalPosition.source, raw, mapPath),
     line |-> IF originalPosition.line # 0 THEN originalPosition.line ELSE loc.line,
     column |-> IF originalPosition.column # NullNum THEN originalPosition.column
                ELSE loc.column,
     componentName |-> loc.componentName,
     sourceCode |-> loc.sourceCode,
     tagName |-> "",
     parent |-> ""]

NoMap ==
    [kind |-> "none", loadable |-> FALSE, sourceRoot |-> <<>>,
     answer |-> [throws |-> FALSE, hasSource |-> FALSE, source |-> <<>>,
                 line |-> NullNum, column |-> NullNum]]

\* same: the value is the very object the caller passed in
SrvPending == [status |-> "pending", same |-> FALSE, value |-> <<>>]
Unchanged(loc) == [status |-> "fulfilled", same |-> TRUE, value |-> <<loc>>]
Fresh(loc) == [status |-> "fulfilled", same |-> FALSE, value |-> <<loc>>]

(***************************************************************************)
(* resolveSourceLocationInServer, step by step                             *)
(***************************************************************************)
srvInputs == <<sourceLocation, disk, locVars, decoderVars>>

\* a pass-through that rebuilds the location from the five copied fields
PassThroughRebuilds ==
    /\ srvPc = "start"
    /\ ~StartsWith(sourceLocation.file, ServerPrefix)
    /\ srvResult' = Fresh([sourceLocation EXCEPT !.tagName = "", !.parent = ""])
    /\ srvPc' = "done"
    /\ UNCHANGED <<srvInputs, sourceMapPath, rawSourceMap, consumer, microtasks, effects>>

\* lines 27-29
PassThrough ==
    /\ srvPc = "start"
    /\ ~StartsWith(sourceLocation.file, ServerPrefix)
    /\ srvResult' = Unchanged(sourceLocation)
    /\ srvPc' = "done"
    /\ UNCHANGED <<srvInputs, sourceMapPath, rawSourceMap, consumer, microtasks, effects>>

\* lines 31-57: no companion map file
NoMapFile ==
    /\ srvPc = "start"
    /\ StartsWith(sourceLocation.file, ServerPrefix)
    /\ LET found0 == MapLookup(ScriptPath(sourceLocation.file), disk.files)
       IN  /\ found0.path = <<>>
           /\ effects' = effects \o found0.calls
    /\ srvResult' = Unchanged(sourceLocation)
    /\ srvPc' = "done"
    /\ UNCHANGED <<srvInputs, sourceMapPath, rawSourceMap, consumer, microtasks>>

\* lines 59-60 throw: readFileSync fails or the content is not JSON;
\* the catch block (lines 110-112) returns the input
MapUnusable ==
    /\ srvPc = "start"
    /\ StartsWith(sourceLocation.file, ServerPrefix)
    /\ LET found0 == MapLookup(ScriptPath(sourceLocation.file), disk.files)
       IN  /\ found0.path # <<>>
           /\ sourceMapPath' = found0.path
           /\ effects' = effects \o found0.calls \o <<"readFileSync">>
    /\ disk.content.kind \in {"unreadable", "notjson"}
    /\ srvResult' = Unchanged(sourceLocation)
    /\ srvPc' = "done"
    /\ UNCHANGED <<srvInputs, rawSourceMap, consumer, microtasks>>

\* lines 59-66: the map is read and parsed, SourceMapConsumer.with is
\* called, and the function awaits the promise that only the callback
\* of with resolves
MapParsed ==
    /\ srvPc = "start"
    /\ StartsWith(sourceLocation.file, ServerPrefix)
    /\ LET found0 == MapLookup(ScriptPath(sourceLocation.file), disk.files)
       IN  /\ found0.path # <<>>
           /\ sourceMapPath' = found0.path
           /\ effects' = effects \o found0.calls \o <<"readFileSync", "with">>
    /\ disk.content.kind = "json"
    /\ rawSourceMap' = disk.content
    /\ srvPc' = "loading"
    /\ UNCHANGED <<srvInputs, consumer, microtasks, srvResult>>

\* a job queue that runs the continuation of with before the caller's
ConsumerLoadsHelperFirst ==
    /\ srvPc = "loading"
    /\ rawSourceMap.loadable
    /\ consumer' = "live"
    /\ microtasks' = <<"with", "caller">>
    /\ srvPc' = "loaded"
    /\ UNCHANGED <<srvInputs, sourceMapPath, rawSourceMap, effects, srvResult>>

\* with constructs the consumer and calls the callback: resolve(consumer)
\* readies the caller, then with awaits the callback's result
ConsumerLoads ==
    /\ srvPc = "loading"
    /\ rawSourceMap.loadable
    /\ consumer' = "live"
    /\ microtasks' = <<"caller", "with">>
    /\ srvPc' = "loaded"
    /\ UNCHANGED <<srvInputs, sourceMapPath, rawSourceMap, effects, srvResult>>

\* with rejects before it calls the callback: nothing resolves the promise
\* awaited at line 62 and nothing rejects it
ConsumerLoadFails ==
    /\ srvPc = "loading"
    /\ ~rawSourceMap.loadable
    /\ srvPc' = "stuck"
    /\ UNCHANGED <<srvInputs, sourceMapPath, rawSourceMap, consumer, microtasks, effects,
                   srvResult>>

\* lines 68-112
CallerResumes ==
    /\ microtasks # <<>>
    /\ Head(microtasks) = "caller"
    /\ microtasks' = Tail(microtasks)
    /\ LET originalPosition == rawSourceMap.answer
       IN  IF originalPosition.throws
           THEN /\ effects' = effects \o <<"originalPositionFor">>
                /\ UNCHANGED consumer
                /\ srvResult' = Unchanged(sourceLocation)
           ELSE /\ effects' = effects \o <<"originalPositionFor", "destroy">>
                /\ consumer' = "destroyed"
                /\ srvResult' =
                     IF originalPosition.hasSource /\ originalPosition.line # NullNum
                     THEN Fresh(MappedResult(sourceLocation, originalPosition,
                                             rawSourceMap, sourceMapPath))
                     ELSE Unchanged(sourceLocation)
    /\ srvPc' = "done"
    /\ UNCHANGED <<srvInputs, sourceMapPath, rawSourceMap>>

\* the finally block of SourceMapConsumer.with
WithFinishes ==
    /\ microtasks # <<>>
    /\ Head(microtasks) = "with"
    /\ microtasks' = Tail(microtasks)
    /\ consumer' = "destroyed"
    /\ effects' = effects \o <<"destroy">>
    /\ UNCHANGED <<srvInputs, srvPc, sourceMapPath, rawSourceMap, srvResult>>

(***************************************************************************)
(* Inputs                                                                  *)
(***************************************************************************)
NoType == [displayName |-> "", renderName |-> "", name |-> ""]

\* tag is the kind of the node: 0 a function component, 11 a ForwardRef
FiberNode(ret, sib, dbgOwner, own, environment, pl, ty, nm, tg) ==
    [return |-> ret, sibling |-> sib, _debugOwner |-> dbgOwner, owner |-> own,
     env |-> environment, payload |-> pl, type |-> ty, name |-> nm, tag |-> tg]

\* what a node carries besides its links
Profile(pl, environment, ty, nm) ==
    [payload |-> pl, env |-> environment, type |-> ty, name |-> nm, tag |-> 0]

OwnCode(n) == Profile(SourcePayload(AppFile, n, 0), "", [NoType EXCEPT !.name = "App"], "")
ServerCode(n) == Profile(SourcePayload(CardFile, n, 1), "Server", NoType, "Card")
Vendored(n) ==
    Profile(SourcePayload(VendorFile, n, 1), "", [NoType EXCEPT !.displayName = "Button"], "")
Bare == Profile(NoPayload, "", NoType, "")
ZeroLine == Profile(SourcePayload(AppFile, 0, 1), "", [NoType EXCEPT !.renderName = "Row"], "")
NegColumn(n) == Profile(SourcePayload(AppFile, n, -1), "", NoType, "")
BlankName(n) == Profile(SourcePayload(BlankFile, n, 1), "", NoType, "")
Malformed == Profile(BadSourcePayload, "", NoType, "")
\* a ForwardRef with a location of its own and the name of its render function
Wrapper(n) ==
    [Profile(SourcePayload(CardFile, n, 2), "", [NoType EXCEPT !.renderName = "Card"], "")
        EXCEPT !.tag = 11]
Opaque == Profile(OpaquePayload, "", NoType, "")

Profiles(n) ==
    {OwnCode(n), ServerCode(n), Vendored(n), Bare, ZeroLine, NegColumn(n), Malformed,
     Wrapper(n)}

WithLinks(pr, ret, sib, dbgOwner, own) ==
    FiberNode(ret, sib, dbgOwner, own, pr.env, pr.payload, pr.type, pr.name, pr.tag)

\* an element whose only attachment is the key __reactFiber$... -> node 1
PlainElement ==
    [kind |-> "element", fixed |-> <<0, 0, 0, 0>>,
     keys |-> <<[prefix |-> "__reactFiber$", value |-> 1]>>]

NoElement(k) == [kind |-> k, fixed |-> <<0, 0, 0, 0>>, keys |-> <<>>]

KeyEntries ==
    [prefix : {"__reactFiber$", "_reactFiber$", "__reactProps$"},
     value : {-1, 0, 1, NumNodes}]

KeyLists == UNION {[1..n -> KeyEntries] : n \in 0..MaxKeys}

FixedLists == [1..4 -> {0, 1, NumNodes}]

Elements ==
    {NoElement(k) : k \in {"null", "plain", "foreign", "element"}}
    \cup {[kind |-> "element", fixed |-> f, keys |-> ks] :
            f \in FixedLists, ks \in {kl \in KeyLists : Len(kl) <= 1}}
    \cup {[kind |-> "element", fixed |-> <<0, 0, 0, 0>>, keys |-> ks] : ks \in KeyLists}

MaxDepthOptions == {-1} \cup 0..MaxDepthOpt

\* _debugOwner links as the walk from node 1 meets them: a path 1, 2, ..
\* that ends, or turns back to a node of the path
OwnerLinks ==
    {f \in [Nodes -> NodeRefs] :
        \A n \in Nodes :
            /\ f[n] <= n + 1
            /\ f[n] # n + 1 => \A m \in Nodes : m > n => f[m] = 0}

\* the owner link of every node: none, its _debugOwner, itself, node 1
OwnerModes == {"none", "same", "self", "first"}

OwnerOf(mode, n, dbgOwner) ==
    CASE mode = "none" -> 0
      [] mode = "same" -> dbgOwner
      [] mode = "self" -> n
      [] OTHER -> 1

\* stack payloads: what the tokenizer and the mapping service do
TopFrames == {Frame(ChunkFile, 4325, 16), Frame(ClientStaticFile, 4325, 16)}

TargetFrames ==
    {Frame(f, l, c) :
        f \in {<<>>, AppFileQ, VendorFile, ServerSsrFile, ServerChunkFile, AboutOtherFile},
        l \in {0, 200}, c \in {-1, 0, 316}}

GpsOutcomes ==
    {GpsThrows, NoGps}
    \cup {GpsFrame(f, l, c) : f \in {<<>>, CardFile, AppFileQ}, l \in {0, 6}, c \in {0, 7}}

StackPayloads ==
    {StackPayload("throws", <<>>, NoGps)}
    \cup {StackPayload("ok", <<t>>, NoGps) : t \in TopFrames}
    \cup {StackPayload("ok", <<t, f>>, g) : t \in TopFrames, f \in TargetFrames, g \in GpsOutcomes}
    \cup {StackPayload("ok", <<t, f, t>>, g) :
            t \in {Frame(ClientStaticFile, 4325, 16)},
            f \in {Frame(ServerSsrFile, 200, 316)}, g \in GpsOutcomes}

InitRegs ==
    /\ pc = "start"
    /\ ffStack = <<>>
    /\ found = 0
    /\ pdCaller = "primary"
    /\ pdArg = 0
    /\ pdCur = 0
    /\ pdNode = 0
    /\ cnCur = 0
    /\ cnPrev = 0
    /\ pdResult = NullLoc
    /\ gpCur = 0
    /\ gpDepth = 0
    /\ gpIsNextJs = "undef"
    /\ chain = <<>>
    /\ result = NoResult

\* every kind of element, on a heap of unlinked nodes
InitElements ==
    /\ element \in Elements
    /\ options = -1
    /\ fiber = [n \in Nodes |-> WithLinks(OwnCode(n), 0, 0, 0, 0)]

\* every shape of return and sibling links
InitPhysical ==
    /\ element = PlainElement
    /\ options \in MaxDepthOptions
    /\ \E ret \in [Nodes -> NodeRefs], sib \in [Nodes -> NodeRefs], holder \in NodeRefs :
          fiber = [n \in Nodes |->
                     WithLinks(IF n = holder THEN OwnCode(n) ELSE Bare,
                               ret[n], sib[n], 0, 0)]

\* every shape of creator links
InitCreators ==
    /\ element = PlainElement
    /\ options \in MaxDepthOptions
    /\ \E dbg \in OwnerLinks, mode \in OwnerModes :
         \E pr \in [Nodes -> UNION {Profiles(n) : n \in Nodes}] :
            /\ \A n \in Nodes : pr[n] \in Profiles(n)
            /\ fiber = [n \in Nodes |->
                          WithLinks(pr[n], 0, 0, dbg[n], OwnerOf(mode, n, dbg[n]))]

\* every stack payload on node 1
InitStacks ==
    /\ element = PlainElement
    /\ options = -1
    /\ \E p \in StackPayloads \cup {NegColumn(1).payload, BlankName(1).payload, OpaquePayload} :
          fiber = [n \in Nodes |->
                     IF n = 1
                     THEN FiberNode(0, 0, 0, 0, "", p, [NoType EXCEPT !.name = "HeroPost"], "", 0)
                     ELSE WithLinks(Bare, 0, 0, 0, 0)]

\* every stack payload on node 1, created by node 2
InitStackCreators ==
    /\ element = PlainElement
    /\ options = -1
    /\ \E p \in StackPayloads, pr \in {OwnCode(2), Vendored(2), Bare} :
          fiber = [n \in Nodes |->
                     IF n = 1
                     THEN FiberNode(0, 0, 2, 0, "", p, [NoType EXCEPT !.name = "HeroPost"], "", 0)
                     ELSE IF n = 2 THEN WithLinks(pr, 0, 0, 0, 0)
                     ELSE WithLinks(Bare, 0, 0, 0, 0)]

(***************************************************************************)
(* The decoder support shared by the calls of one process                  *)
(* (src/README.md lines 226-409: resolveSourceLocationInServer with        *)
(* ensureSourceMapInitialized)                                             *)
(***************************************************************************)
Calls == 1..NumCalls

\* what the lookup of lib/mappings.wasm meets: "buffer" the file is found
\* and read, "path" no file is found and the path string is handed over,
\* "unreadable" the file is found and readFileSync throws, "nocwd" the
\* lookup itself throws
WasmStates == {"buffer", "path", "unreadable", "nocwd"}

\* did: what the call of ensureSourceMapInitialized did; initialize: how
\* often it invoked SourceMapConsumer.initialize
Ensured(flag, n, what) == [initialized |-> flag, initialize |-> n, did |-> what]

\* ensureSourceMapInitialized without the test of the flag
ensureSourceMapInitializedAlways(initialized, wasm) ==
    IF wasm \in {"buffer", "path"} THEN Ensured(TRUE, 1, wasm)
    ELSE Ensured(FALSE, 0, "failed")

\* lines 239-297
ensureSourceMapInitialized(initialized, wasm) ==
    IF initialized THEN Ensured(TRUE, 0, "already")
    ELSE IF wasm \in {"buffer", "path"} THEN Ensured(TRUE, 1, wasm)
    ELSE Ensured(FALSE, 0, "failed")

NoCall == [pc |-> "idle", did |-> "none"]
NewCall == [pc |-> "start", did |-> "none"]

\* lines 321-354: the call returns before it needs a consumer (not a
\* server location, no map file, a map file that cannot be read or parsed)
CallReturnsEarly(c) ==
    /\ calls[c].pc = "start"
    /\ calls' = [calls EXCEPT ![c].pc = "done"]
    /\ UNCHANGED <<sourceMapInitialized, initializeCalls, locVars, srvVars>>

\* lines 356-362: ensureSourceMapInitialized runs to its end, then the
\* call waits for its consumer
CallEnsures(c) ==
    /\ calls[c].pc = "start"
    /\ \E wasm \in WasmStates :
          LET r == ensureSourceMapInitialized(sourceMapInitialized, wasm)
          IN  /\ sourceMapInitialized' = r.initialized
              /\ initializeCalls' = initializeCalls + r.initialize
              /\ calls' = [calls EXCEPT ![c] = [pc |-> "awaiting", did |-> r.did]]
    /\ UNCHANGED <<locVars, srvVars>>

\* lines 364-408: the call resumes with its consumer and returns
CallCompletes(c) ==
    /\ calls[c].pc = "awaiting"
    /\ calls' = [calls EXCEPT ![c].pc = "done"]
    /\ UNCHANGED <<sourceMapInitialized, initializeCalls, locVars, srvVars>>

\* no call was made since the module was loaded
IdleDecoder ==
    /\ sourceMapInitialized = FALSE
    /\ initializeCalls = 0
    /\ calls = [c \in Calls |-> NoCall]

\* no resolveSourceLocationInServer call is under way
IdleServer ==
    /\ sourceLocation =
         [file |-> <<>>, line |-> 0, column |-> 0, componentName |-> "",
          sourceCode |-> "", tagName |-> "", parent |-> ""]
    /\ disk = [files |-> {}, content |-> NoMap]
    /\ srvPc = "idle"
    /\ sourceMapPath = <<>>
    /\ rawSourceMap = NoMap
    /\ consumer = "none"
    /\ microtasks = <<>>
    /\ effects = <<>>
    /\ srvResult = SrvPending

Init ==
    /\ InitRegs
    /\ IdleServer
    /\ IdleDecoder
    /\ InitElements \/ InitPhysical \/ InitCreators \/ InitStacks \/ InitStackCreators

Next ==
    \/ CheckElement
    \/ LocateFiber
    \/ AscentExhausted
    \/ AscentFound
    \/ AscentReturn
    \/ AscentSibling
    \/ AscentOverflow
    \/ FindNodeClimb
    \/ FindNodeReturns
    \/ ParseThrows
    \/ NameClimb
    \/ NameReturns
    \/ PrimaryParsed
    \/ ParentChainEnds
    \/ ParentEnter
    \/ ParentParsed
    \/ ParentNext

vars == <<locVars, srvVars, decoderVars>>

Spec == Init /\ [][Next]_vars

\* the engine goes on running the call while a step of it is possible
FairSpec == Spec /\ WF_vars(Next)


(***************************************************************************)
(* Inputs of resolveSourceLocationInServer                                 *)
(***************************************************************************)
ScriptFiles ==
    {<<"about://React/Server/", "file://", "/", "proj", "/", "out", "/", "chunk", ".js">>,
     <<"about://React/Server/", "file://", "/", "proj", "/", "out", "/", "%5B", "root", "%5D", ".js">>,
     <<"about://React/Server/", "file://", "/", "proj", "/", "out", "/", "%", "chunk", ".js">>,
     <<"about://React/Server/", "file://", "proj", "/", "out", "/", "chunk", ".js">>,
     <<"about://React/Server/", "/", "proj", "/", "out", "/", "chunk", ".mjs">>}

OtherFiles ==
    {<<"/", "some", "/", "regular", "/", "path", ".tsx">>,
     <<"about://React/Client/", "file://", "/", "proj", "/", "out", "/", "chunk", ".js">>,
     <<"http://localhost:3000", "/", "about://React/Server/", "chunk", ".js">>}

Extras ==
    {[componentName |-> "", sourceCode |-> "", tagName |-> "", parent |-> ""],
     [componentName |-> "Intro", sourceCode |-> "<h1>", tagName |-> "H1", parent |-> "Page"],
     [componentName |-> "Intro", sourceCode |-> "", tagName |-> "", parent |-> "Page"]}

SourceLocations ==
    {[file |-> f, line |-> l, column |-> c, componentName |-> x.componentName,
      sourceCode |-> x.sourceCode, tagName |-> x.tagName, parent |-> x.parent] :
        f \in ScriptFiles \cup OtherFiles, l \in {251}, c \in {0, 300}, x \in Extras}

MappedSources ==
    {<<"intro", ".tsx">>,
     <<"src", "/", "app", "/", "intro", ".tsx">>,
     <<"..", "/", "..", "/", "src", "/", "intro", ".tsx">>,
     <<"/", "proj", "/", "src", "/", "intro", ".tsx">>,
     <<"file://", "/", "proj", "/", "src", "/", "intro", ".tsx">>}

SourceRoots == {<<>>, <<"..", "/", "app">>, <<"/", "work", "/", "repo">>}

Answers ==
    {[throws |-> TRUE, hasSource |-> FALSE, source |-> <<>>, line |-> NullNum,
      column |-> NullNum],
     [throws |-> FALSE, hasSource |-> FALSE, source |-> <<>>, line |-> NullNum,
      column |-> NullNum]}
    \cup {[throws |-> FALSE, hasSource |-> TRUE, source |-> src, line |-> l, column |-> c] :
            src \in MappedSources, l \in {NullNum, 6}, c \in {NullNum, 0, 7}}

MapContents ==
    {[NoMap EXCEPT !.kind = "unreadable"], [NoMap EXCEPT !.kind = "notjson"],
     [NoMap EXCEPT !.kind = "json"]}
    \cup {[kind |-> "json", loadable |-> TRUE, sourceRoot |-> r, answer |-> a] :
            r \in SourceRoots, a \in Answers}

\* the map files that may exist next to the script of the location
MapCandidates(loc) ==
    IF StartsWith(loc.file, ServerPrefix)
    THEN {ScriptPath(loc.file) \o <<".map">>, DotMap(ScriptPath(loc.file))}
    ELSE {loc.file \o <<".map">>}

InitServer ==
    /\ sourceLocation \in SourceLocations
    /\ \E fs \in SUBSET MapCandidates(sourceLocation), c \in MapContents :
          disk = [files |-> fs, content |-> c]
    /\ srvPc = "start"
    /\ sourceMapPath = <<>>
    /\ rawSourceMap = NoMap
    /\ consumer = "none"
    /\ microtasks = <<>>
    /\ effects = <<>>
    /\ srvResult = SrvPending
    /\ IdleDecoder
    /\ InitRegs
    /\ element = NoElement("null")
    /\ options = -1
    /\ fiber = [n \in Nodes |-> WithLinks(Bare, 0, 0, 0, 0)]

NextServer ==
    \/ PassThrough
    \/ NoMapFile
    \/ MapUnusable
    \/ MapParsed
    \/ ConsumerLoads
    \/ ConsumerLoadFails
    \/ CallerResumes
    \/ WithFinishes

SpecServer == InitServer /\ [][NextServer]_vars

\* the module is loaded and the calls of the process are made
InitDecoder ==
    /\ sourceMapInitialized = FALSE
    /\ initializeCalls = 0
    /\ calls = [c \in Calls |-> NewCall]
    /\ IdleServer
    /\ InitRegs
    /\ element = NoElement("null")
    /\ options = -1
    /\ fiber = [n \in Nodes |-> WithLinks(Bare, 0, 0, 0, 0)]

NextDecoder ==
    \/ \E c \in Calls : CallReturnsEarly(c)
    \/ \E c \in Calls : CallEnsures(c)
    \/ \E c \in Calls : CallCompletes(c)

SpecDecoder == InitDecoder /\ [][NextDecoder]_vars


(***************************************************************************)
(* Properties of getElementSourceLocation                                  *)
(***************************************************************************)
\* C1: whatever the element, the fiber data, the stack tokenizer and the
\* source-map service do, the promise of getElementSourceLocation is never
\* rejected, and when the call completes it is fulfilled with either
\* {success: true, data} or {success: false, error}.
C1_NeverRejects ==
    /\ result.status \in {"pending", "fulfilled"}
    /\ pc = "done" =>
         /\ result.status = "fulfilled"
         /\ \/ result.success /\ result.data # <<>> /\ result.error = <<>>
            \/ ~result.success /\ result.data = <<>> /\ result.error # <<>>

\* an exception raised inside the call was turned into a failure value
C1_Witness ==
    /\ pc = "done"
    /\ result.status = "fulfilled"
    /\ ~result.success
    /\ Len(result.error) = 2
    /\ result.error[1] = "Error extracting source location: "

\* C2: in every result with success = true, data.file is non-empty,
\* data.line > 0 and data.column >= 0 (and so for every location that
\* .parent reaches).
C2_SuccessIsValid ==
    pc = "done" /\ result.success =>
        \A i \in 1..Len(result.data) :
            /\ result.data[i].file # <<>>
            /\ result.data[i].line > 0
            /\ result.data[i].column >= 0

\* a success whose creator carries a location with a negative column
C2_Witness ==
    /\ pc = "done"
    /\ result.success
    /\ fiber[found]._debugOwner # 0
    /\ fiber[fiber[found]._debugOwner].payload.kind = "source"
    /\ fiber[fiber[found]._debugOwner].payload.columnNumber < 0

\* C3: with options.maxDepth = N, N >= 0, at most N locations are reached
\* from result.data by following .parent.
C3_ParentChainWithinMaxDepth ==
    pc = "done" /\ result.success /\ options >= 0 => Len(result.data) - 1 <= options

\* C4: findFiberWithDebugStack terminates on every link structure: no
\* activation of it is entered again, with the same node and the same
\* budget, while it is still running.
C4_AscentNeverReenters ==
    \A i, j \in 1..Len(ffStack) :
        i < j => <<ffStack[i].current, ffStack[i].maxDepth>>
                   # <<ffStack[j].current, ffStack[j].maxDepth>>

\* C5: an element with no node at a fixed attachment point and no own key
\* of the known patterns gets 'No React Fiber node found on element', and
\* the call never enters the descriptor ascent or the descriptor parsing.
C5_NoFiberNoExtraction ==
    (/\ element.kind = "element"
     /\ \A i \in 1..4 : element.fixed[i] = 0
     /\ \A i \in 1..Len(element.keys) : element.keys[i].prefix \notin FiberPrefixes)
    => /\ pc \in {"start", "extract", "done"}
       /\ ffStack = <<>> /\ found = 0 /\ pdArg = 0
       /\ pc = "done" => result = Failure("No React Fiber node found on element")

\* the call ended on an element whose only own key is of another pattern
C5_Witness ==
    /\ pc = "done"
    /\ element.kind = "element"
    /\ \A i \in 1..4 : element.fixed[i] = 0
    /\ Len(element.keys) >= 1
    /\ \A i \in 1..Len(element.keys) :
          element.keys[i].prefix = "__reactProps$" /\ element.keys[i].value >= 1
    /\ result = Failure("No React Fiber node found on element")

(***************************************************************************)
(* Properties of resolveSourceLocationInServer                             *)
(***************************************************************************)
\* C6: when loc.file does not start with the server prefix the call returns
\* a value equal to loc in every field, and neither the file system nor
\* the source-map consumer is used.
C6_PassThroughUntouched ==
    ~StartsWith(sourceLocation.file, ServerPrefix) =>
        /\ effects = <<>>
        /\ consumer = "none"
        /\ srvPc \in {"idle", "start", "done"}
        /\ srvPc = "done" =>
             srvResult.status = "fulfilled" /\ srvResult.value = <<sourceLocation>>

\* a location with every optional field set came back
C6_Witness ==
    /\ srvPc = "done"
    /\ ~StartsWith(sourceLocation.file, ServerPrefix)
    /\ sourceLocation.tagName # ""
    /\ sourceLocation.parent # ""
    /\ srvResult.value = <<sourceLocation>>

\* C7: for a server-tagged input, when reading the map file, parsing it,
\* loading it into the consumer or querying the consumer fails, the call
\* completes with the input location unchanged; it never stays pending.
C7_FailureReturnsInput ==
    (/\ StartsWith(sourceLocation.file, ServerPrefix)
     /\ \/ disk.content.kind \in {"unreadable", "notjson"}
        \/ ~disk.content.loadable
        \/ disk.content.answer.throws)
    => /\ srvPc # "stuck"
       /\ srvPc = "done" =>
            srvResult.status = "fulfilled" /\ srvResult.value = <<sourceLocation>>

\* C8: for a server-tagged location whose companion map file exists and
\* whose map sends (line, column) to source S at (L, C), the call returns
\* a location whose file is absolute and ends in the path S names, whose
\* line is L and whose column is C.
C8_MappedLocation ==
    LET filePath == ScriptPath(sourceLocation.file)
        position == disk.content.answer
        named == ResolveDots(Segments(StripFileScheme(position.source)), TRUE, <<>>)
    IN  (/\ srvPc = "done"
         /\ StartsWith(sourceLocation.file, ServerPrefix)
         /\ \/ filePath \o <<".map">> \in disk.files
            \/ EndsWithTok(filePath, ".js") /\ DotMap(filePath) \in disk.files
         /\ disk.content.kind = "json"
         /\ disk.content.loadable
         /\ ~position.throws /\ position.hasSource
         /\ position.line # NullNum /\ position.column # NullNum)
        => /\ srvResult.status = "fulfilled"
           /\ LET out == srvResult.value[1]
                  segs == Segments(out.file)
              IN  /\ IsAbsolute(out.file)
                  /\ Len(segs) >= Len(named)
                  /\ SubSeq(segs, Len(segs) - Len(named) + 1, Len(segs)) = named
                  /\ \A i \in 1..Len(segs) : segs[i] \notin {<<".">>, <<"..">>}
                  /\ out.line = position.line
                  /\ out.column = position.column

\* chunk.js.map next to /proj/out/chunk.js sends (251, 300) to intro.tsx at
\* (6, 0): the call returned /proj/out/intro.tsx, line 6, column 0
C8_Witness ==
    /\ srvPc = "done"
    /\ sourceLocation.file =
         <<"about://React/Server/", "file://", "/", "proj", "/", "out", "/", "chunk", ".js">>
    /\ sourceLocation.column = 300
    /\ disk.files = {<<"/", "proj", "/", "out", "/", "chunk", ".js", ".map">>}
    /\ srvResult.status = "fulfilled"
    /\ srvResult.value[1].file = <<"/", "proj", "/", "out", "/", "intro", ".tsx">>
    /\ srvResult.value[1].line = 6
    /\ srvResult.value[1].column = 0

(***************************************************************************)
(* Properties of parseDebugStack                                           *)
(***************************************************************************)
\* C9: when frame 0's file contains _next/static and frame 1's file is a
\* server URL that embeds a file:// path under .next/server/chunks/,
\* parseDebugStack returns <origin of frame 0>/_next/static/chunks/<decoded
\* base name of the chunk> with frame 1's line and column.
C9_StaticChunkRemap ==
    LET p == fiber[1].payload
        base == IF Includes(p.frames[2].fileName, "my-chunk") THEN "my-chunk" ELSE "[root]"
    IN  (/\ pc = "primary_parsed"
         /\ p.kind = "stack" /\ p.parse = "ok" /\ Len(p.frames) >= 2
         /\ p.frames[2].lineNumber > 0 /\ p.frames[2].columnNumber >= 0
         /\ Includes(p.frames[1].fileName, "_next/static")
         /\ StartsWith(p.frames[2].fileName, <<"about://React/Server/", "file://">>)
         /\ Includes(p.frames[2].fileName, ".next/server/chunks/"))
        => /\ pdResult.kind = "loc"
           /\ pdResult.file =
                <<p.frames[1].fileName[1], "/", "_next/static", "/", "chunks/", base, ".js">>
           /\ pdResult.line = p.frames[2].lineNumber
           /\ pdResult.column = p.frames[2].columnNumber

\* C10: in every other case parseDebugStack hands frame 1 to
\* getMappedLocation and returns the file, line and column of the frame
\* the service answers with.
C10_MappedFrameReturned ==
    LET p == fiber[1].payload
    IN  (/\ pc = "primary_parsed"
         /\ p.kind = "stack" /\ p.parse = "ok" /\ Len(p.frames) >= 2
         /\ p.frames[2].lineNumber > 0 /\ p.frames[2].columnNumber >= 0
         /\ \/ ~Includes(p.frames[1].fileName, "_next/static")
            \/ ~StartsWith(p.frames[2].fileName, <<"about://React/Server/", "file://">>)
         /\ p.gps.kind = "frame"
         /\ p.gps.fileName # <<>> /\ p.gps.lineNumber > 0)
        => /\ pdResult.kind = "loc"
           /\ pdResult.file = SplitFirst(p.gps.fileName, "?")
           /\ pdResult.line = p.gps.lineNumber
           /\ pdResult.column = p.gps.columnNumber

(***************************************************************************)
(* Properties of the descriptor ascent and of the name resolution          *)
(***************************************************************************)
\* C11: a ForwardRef node (tag 11) is never the node whose descriptor is
\* used when its _debugOwner is a node of another kind that has a debug
\* payload of its own.
C11_WrapperDefersToCreator ==
    found # 0 =>
        ~(/\ fiber[found].tag = 11
          /\ fiber[found]._debugOwner # 0
          /\ fiber[fiber[found]._debugOwner].tag # 11
          /\ hasDebugStack(fiber[fiber[found]._debugOwner]))

C13_AscentWithinBudget ==
    LET parentHops == Cardinality({<<i, k>> \in (1..Len(ffStack)) \X (1..DefaultMaxDepth) :
                                      k <= ffStack[i].depth})
        siblingHops == Len(ffStack) - 1
    IN  (/\ pc = "ascent"
         /\ options >= 1
         /\ Top.depth < Top.maxDepth
         /\ hasDebugStack(fiber[Top.current]))
        => parentHops + siblingHops <= options - 1

\* C14: getComponentName terminates on every creator chain, cyclic ones
\* included: the loop over _debugOwner is left whenever it is entered.
C14_NameResolutionTerminates == [](pc = "cn_loop" => <>(pc # "cn_loop"))

\* C15: findNodeWithoutNodeModules terminates on every input, cyclic
\* creator chains included: its loop is left whenever it is entered.
\* Stated for the heaps in which no node is its own _debugOwner, where a
\* walk that is not left keeps moving from node to node.
C15_FindNodeTerminates ==
    [](pc = "pd_find" /\ (\A n \in Nodes : fiber[n]._debugOwner # n)
         => <>(pc # "pd_find"))

(***************************************************************************)
(* Properties of the ancestor chain                                        *)
(***************************************************************************)
\* C16: getParentSourceLocation visits no node twice, so no ancestor is in
\* the chain more than once.  Stated where every node's location is that
\* of its own payload (no vendored payload), so that equal entries of the
\* chain come from the same node.
C16_NoAncestorTwice ==
    (/\ pc = "done"
     /\ result.success
     /\ \A n \in Nodes : isNodeModulesNode(fiber[n]) = "no")
    => \A i, j \in 2..Len(result.data) : i # j => result.data[i] # result.data[j]

\* C17: when the first ancestor has env = "Server" every later hop of the
\* chain builder follows owner, whether or not the ancestor it leaves was
\* resolved; otherwise every hop follows _debugOwner.
C17_HopFollowsMarker ==
    [][(pc \in {"parent_parsed", "parent_next"} /\ pc' = "parent")
          => gpCur' = IF gpIsNextJs = "yes" THEN fiber[gpCur].owner
                      ELSE fiber[gpCur]._debugOwner]_vars

\* C18: an ancestor without a valid location (no payload, or a payload
\* whose line or column is invalid) is passed over: when the next ancestor
\* resolves and the depth budget allows a second hop, that ancestor is in
\* the chain.
C18_UnresolvedAncestorSkipped ==
    LET a1 == fiber[found]._debugOwner
        a2 == IF fiber[a1].env = "Server" THEN fiber[a1].owner ELSE fiber[a1]._debugOwner
        own(p) == p.kind = "source" /\ Trim(p.fileName) # <<>>
                    /\ ~Includes(p.fileName, "node_modules")
    IN  (/\ pc = "done" /\ result.success
         /\ EffectiveMaxDepth(options) >= 2
         /\ a1 # 0
         /\ \/ fiber[a1].payload.kind = "none"
            \/ /\ own(fiber[a1].payload)
               /\ fiber[a1].payload.lineNumber <= 0 \/ fiber[a1].payload.columnNumber < 0
         /\ a2 # 0
         /\ own(fiber[a2].payload)
         /\ fiber[a2].payload.lineNumber > 0 /\ fiber[a2].payload.columnNumber >= 0)
        => /\ Len(result.data) >= 2
           /\ result.data[2].file = SplitFirst(fiber[a2].payload.fileName, "?")
           /\ result.data[2].line = fiber[a2].payload.lineNumber
           /\ result.data[2].column = fiber[a2].payload.columnNumber

\* the first ancestor has a payload that fails validation and the second
\* one is the parent of the result
C18_Witness ==
    LET a1 == fiber[found]._debugOwner
        a2 == IF fiber[a1].env = "Server" THEN fiber[a1].owner ELSE fiber[a1]._debugOwner
        own(p) == p.kind = "source" /\ Trim(p.fileName) # <<>>
                    /\ ~Includes(p.fileName, "node_modules")
    IN  /\ pc = "done" /\ result.success
        /\ a1 # 0
        /\ own(fiber[a1].payload) /\ fiber[a1].payload.columnNumber < 0
        /\ a2 # 0
        /\ Len(result.data) >= 2
        /\ result.data[2].line = fiber[a2].payload.lineNumber

\* C19: ancestors are resolved one after the other: while a resolution
\* (parseDebugStack) is running, the chain builder neither moves to another
\* ancestor nor starts another resolution nor touches the chain.
C19_SequentialResolution ==
    [][(pc \in {"pd_find", "cn_loop"})
          => (pdArg' = pdArg /\ pdCaller' = pdCaller
                /\ (UNCHANGED <<gpCur, gpDepth, gpIsNextJs, chain>>)
                /\ pc' \in {"pd_find", "cn_loop", "primary_parsed", "parent_parsed",
                            "done"})]_vars

\* the resolution of a second ancestor is running after the first one was
\* resolved and linked
C19_Witness ==
    /\ pc \in {"pd_find", "cn_loop"}
    /\ pdCaller = "parent"
    /\ Len(chain) >= 2
    /\ pdArg = gpCur

(***************************************************************************)
(* Properties of the consumer of resolveSourceLocationInServer             *)
(***************************************************************************)
\* C20: a consumer that resolveSourceLocationInServer obtained is released
\* by the time the call returns, on every exit path: a mapped position, a
\* position without source, and an exception raised by the query.
C20_ConsumerReleasedOnReturn ==
    srvPc = "done" /\ consumer # "none" => consumer = "destroyed"

(***************************************************************************)
(* Properties of the location resolveSourceLocationInServer returns        *)
(***************************************************************************)
\* C22: when a server-tagged location is mapped (the map loads and the
\* query answers with a source and a line), the call returns a new object
\* whose componentName and sourceCode are those of the input, whatever
\* the map holds.
C22_MappedKeepsNameAndCode ==
    (/\ srvPc = "done"
     /\ StartsWith(sourceLocation.file, ServerPrefix)
     /\ sourceMapPath # <<>>
     /\ rawSourceMap.kind = "json" /\ rawSourceMap.loadable
     /\ ~rawSourceMap.answer.throws
     /\ rawSourceMap.answer.hasSource /\ rawSourceMap.answer.line # NullNum)
    => /\ srvResult.status = "fulfilled"
       /\ ~srvResult.same
       /\ srvResult.value[1].componentName = sourceLocation.componentName
       /\ srvResult.value[1].sourceCode = sourceLocation.sourceCode

\* a location with a name and a snippet was mapped to another file
C22_Witness ==
    /\ srvPc = "done"
    /\ srvResult.status = "fulfilled"
    /\ ~srvResult.same
    /\ sourceLocation.componentName = "Intro"
    /\ sourceLocation.sourceCode = "<h1>"
    /\ srvResult.value[1].file # sourceLocation.file
    /\ srvResult.value[1].sourceCode = "<h1>"

\* C30: a mapped result holds file, line, column, componentName and
\* sourceCode only, the parent chain and the tagName of the input are not
\* in it; on every other path that returns (pass-through, no map file, a
\* map that cannot be read or parsed, a query that throws or has no
\* source) the input itself is returned, parent and tagName included.
C30_MappedDropsParentAndTag ==
    LET mapped == /\ StartsWith(sourceLocation.file, ServerPrefix)
                  /\ sourceMapPath # <<>>
                  /\ rawSourceMap.kind = "json" /\ rawSourceMap.loadable
                  /\ ~rawSourceMap.answer.throws
                  /\ rawSourceMap.answer.hasSource
                  /\ rawSourceMap.answer.line # NullNum
    IN  srvPc = "done" =>
          /\ srvResult.status = "fulfilled"
          /\ mapped => /\ ~srvResult.same
                       /\ srvResult.value[1].tagName = ""
                       /\ srvResult.value[1].parent = ""
          /\ ~mapped => /\ srvResult.same
                        /\ srvResult.value = <<sourceLocation>>

\* a location with a tag name and a parent was mapped, and the result has
\* neither
C30_Witness ==
    /\ srvPc = "done"
    /\ srvResult.status = "fulfilled"
    /\ ~srvResult.same
    /\ sourceLocation.tagName = "H1"
    /\ sourceLocation.parent = "Page"
    /\ srvResult.value[1].tagName = ""
    /\ srvResult.value[1].parent = ""

(***************************************************************************)
(* Properties of extractFiberNode                                          *)
(***************************************************************************)
\* C25: the node the ascent starts at is the value of the first non-empty
\* fixed attachment point in the order _reactInternals,
\* _reactInternalFiber, __reactInternalInstance, _reactInternalInstance;
\* when all four are empty it is the value of the first own key, in
\* enumeration order, that starts with __reactFiber$ or _reactFiber$ and
\* holds an object; when there is none the call answers 'No React Fiber
\* node found on element' and raises nothing.
C25_AttachmentOrder ==
    LET fixedAt == {i \in 1..4 : element.fixed[i] # 0}
        keyAt == {i \in 1..Len(element.keys) :
                     /\ element.keys[i].prefix \in {"__reactFiber$", "_reactFiber$"}
                     /\ element.keys[i].value >= 1}
        First(S) == CHOOSE i \in S : \A j \in S : i <= j
        expected == IF fixedAt # {} THEN element.fixed[First(fixedAt)]
                    ELSE IF keyAt # {} THEN element.keys[First(keyAt)].value
                    ELSE 0
        notFound == Failure("No React Fiber node found on element")
    IN  element.kind = "element" =>
          /\ pc = "ascent" /\ Len(ffStack) = 1 /\ Top.depth = 0 => Top.current = expected
          /\ pc = "done" /\ expected = 0 => result = notFound
          /\ pc = "done" /\ expected # 0 => result # notFound
          /\ result.status # "rejected"

\* the second fixed attachment point was taken although the third holds
\* another node
C25_Witness ==
    /\ element.kind = "element"
    /\ element.fixed[1] = 0
    /\ element.fixed[2] # 0
    /\ element.fixed[3] # 0
    /\ element.fixed[3] # element.fixed[2]
    /\ pc = "ascent"
    /\ Len(ffStack) = 1
    /\ Top.depth = 0
    /\ Top.current = element.fixed[2]

(***************************************************************************)
(* Properties of the target frame                                          *)
(***************************************************************************)
\* C23: for a node whose payload is a stack trace that the tokenizer
\* splits into frames, parseDebugStack yields no location when there are
\* fewer than two frames; when there are two or more and the node's own
\* payload is the one resolved, file, line and column come from frame
\* index 1 (as the frame itself has them or as the mapping service
\* answers for it), never from frame 0 or a later frame.
C23_TargetFrameIsSecond ==
    LET p == fiber[pdArg].payload
    IN  (/\ pc \in {"primary_parsed", "parent_parsed"}
         /\ p.kind = "stack"
         /\ p.parse = "ok")
        => /\ Len(p.frames) < 2 => pdResult.kind = "null"
           /\ (Len(p.frames) >= 2 /\ pdNode = pdArg /\ pdResult.kind = "loc") =>
                 /\ pdResult.file \in {SplitFirst(p.frames[2].fileName, "?"),
                                       SplitFirst(p.gps.fileName, "?")}
                 /\ pdResult.line \in {p.frames[2].lineNumber, p.gps.lineNumber}
                 /\ pdResult.column \in {p.frames[2].columnNumber, p.gps.columnNumber}

C27_OneFrameOnly ==
    LET p == fiber[pdArg].payload
        targetFrame == p.frames[2]
        originalFrame == p.gps
    IN  (/\ pc \in {"primary_parsed", "parent_parsed"}
         /\ pdNode = pdArg
         /\ p.kind = "stack" /\ p.parse = "ok" /\ Len(p.frames) >= 2
         /\ targetFrame.fileName # <<>>
         /\ targetFrame.lineNumber > 0 /\ targetFrame.columnNumber >= 0
         /\ originalFrame.kind = "frame" =>
               originalFrame.fileName # <<>> /\ originalFrame.lineNumber > 0
         /\ pdResult.kind = "loc")
        => \/ /\ originalFrame.kind = "frame"
              /\ pdResult.file = SplitFirst(originalFrame.fileName, "?")
              /\ pdResult.line = originalFrame.lineNumber
              /\ pdResult.column = originalFrame.columnNumber
           \/ /\ pdResult.file = SplitFirst(targetFrame.fileName, "?")
              /\ pdResult.line = targetFrame.lineNumber
              /\ pdResult.column = targetFrame.columnNumber

(***************************************************************************)
(* Properties of the chain as a whole                                      *)
(***************************************************************************)
\* C28: no two entries of the chain getElementSourceLocation returns (the
\* primary location and the locations .parent reaches) are derived from
\* the payload of the same node.  Stated for heaps whose creator links
\* have no cycle and in which the line of a descriptor is the number of
\* the node that carries it, so that entries with equal lines are entries
\* derived from one node.
C28_EntriesFromDistinctNodes ==
    (/\ pc = "done"
     /\ result.success
     /\ \A n \in Nodes :
           /\ fiber[n]._debugOwner = 0 \/ fiber[n]._debugOwner > n
           /\ fiber[n].owner = 0 \/ fiber[n].owner > n
           /\ fiber[n].payload.kind \in {"none", "source"}
           /\ fiber[n].payload.kind = "source" => fiber[n].payload.lineNumber \in {0, n})
    => \A i, j \in 1..Len(result.data) :
          i # j => result.data[i].line # result.data[j].line

\* C29: getParentSourceLocation started with budget N examines at most N
\* ancestors: the budget is between 0 and N, an ancestor is examined only
\* while the budget is above 0, and every recursive call, after a resolved
\* ancestor and after a skipped one alike, is made with the budget less
\* one; so the resolved ancestors are never more than the budget spent.
C29_EveryHopSpendsBudget ==
    /\ [](pc \in {"parent", "parent_parsed", "parent_next"} =>
            /\ gpDepth >= 0
            /\ gpDepth <= EffectiveMaxDepth(options)
            /\ pc \in {"parent_parsed", "parent_next"} => gpDepth >= 1
            /\ Len(chain) - 1 <= EffectiveMaxDepth(options) - gpDepth)
    /\ [][(pc \in {"parent_parsed", "parent_next"} /\ pc' = "parent")
             => (gpDepth' = gpDepth - 1)]_vars

\* a budget of N was used up with fewer than N ancestors in the chain: an
\* ancestor that was passed over took a unit of it
C29_Witness ==
    /\ pc = "done"
    /\ result.success
    /\ options >= 1
    /\ gpDepth = 0
    /\ Len(result.data) >= 2
    /\ Len(result.data) - 1 < options

C21_InitializedAtMostOnce ==
    /\ [](initializeCalls <= 1)
    /\ [][sourceMapInitialized => sourceMapInitialized']_vars

\* a call failed to set the decoder up, another one did it while the first
\* was waiting for its consumer, and a third one found it done
C21_Witness ==
    /\ sourceMapInitialized
    /\ initializeCalls = 1
    /\ \E a, b, c \in Calls :
          /\ calls[a].did = "failed"
          /\ calls[a].pc = "awaiting"
          /\ calls[b].did \in {"buffer", "path"}
          /\ calls[c].did = "already"

=============================================================================
